---- MODULE Spec2Model ----
(***************************************************************************)
(* A model of skidl/tools/kicad/geometry.py: the Point and BBox classes.   *)
(*                                                                         *)
(* A reference to a Point is a record [id, x, y]: the identity of the      *)
(* object and its coordinates, so that which object a BBox's min and max   *)
(* refer to, and what the default == compares, is part of the state.  A    *)
(* coordinate is an integer counting quarters (Unit = 4),                  *)
(* which floating point represents and adds exactly; +Inf and -Inf stand   *)
(* for float("inf") and -float("inf").  NaN never arises: the vectors the  *)
(* model passes to move and resize are finite.                             *)
(***************************************************************************)
EXTENDS Integers, Sequences, FiniteSets, TLC

VARIABLES box, pvar, ret, hist, ops

vars == <<box, pvar, ret, hist, ops>>

----------------------------------------------------------------------------
(* Bounds of the model. *)

\* The longest argument list given to BBox(...) and BBox.add(...).
MaxArgs == 2

\* Calls made after construction in the specifications that count them.
MaxOps == 4

\* A finite coordinate stays within -MaxCoord .. MaxCoord quarters.
MaxCoord == 12

----------------------------------------------------------------------------
(* Numbers. *)

\* Quarters per unit: the coordinate 1.0 is the integer 4.
Unit == 4

\* float("inf"), above every finite coordinate.
Inf == 1000

IsInf(c) == c = Inf \/ c = -Inf

Finite(c) == ~IsInf(c)

\* x + y on floats, one operand at most infinite.
FAdd(c, d) == IF IsInf(c) THEN c ELSE IF IsInf(d) THEN d ELSE c + d

\* x - y on floats.
FSub(c, d) == FAdd(c, -d)

\* Python's min(a, b) and max(a, b): the first argument unless the second
\* is strictly smaller (larger).
PyMin(c, d) == IF d < c THEN d ELSE c

PyMax(c, d) == IF d > c THEN d ELSE c

\* Python's round(x) of a finite x: the nearest integer, ties to the even one.
PyRound(c) ==
    LET q == c \div Unit
        r == c % Unit
    IN  IF 2 * r < Unit THEN q * Unit
        ELSE IF 2 * r > Unit THEN (q + 1) * Unit
        ELSE IF q % 2 = 0 THEN q * Unit ELSE (q + 1) * Unit

\* Python's round(x, n) of a finite x: n = 0 rounds to an integer, and a
\* quarter has two decimal digits, so n >= 2 changes nothing.
PyRoundN(c, n) == IF n = 0 THEN PyRound(c) ELSE c

----------------------------------------------------------------------------
(* Point. *)

\* Point.__init__: a new object, of identity n, with coordinates x, y.
Point_init(n, x, y) == [id |-> n, x |-> x, y |-> y]

\* Point.__add__ with a Point operand.
Point_add(n, a, b) == Point_init(n, FAdd(a.x, b.x), FAdd(a.y, b.y))

\* Point.__add__ with a scalar operand: pt = Point(pt, pt) first.
Point_add_scalar(n, a, c) == Point_add(n + 1, a, Point_init(n, c, c))

\* Point.__sub__ with a Point operand.
Point_sub(n, a, b) == Point_init(n, FSub(a.x, b.x), FSub(a.y, b.y))

\* Point.__sub__ with a scalar operand.
Point_sub_scalar(n, a, c) == Point_sub(n + 1, a, Point_init(n, c, c))

\* Point.__neg__.
Point_neg(n, a) == Point_init(n, -a.x, -a.y)

\* A Point.max that takes the larger x and keeps its own y.
Point_max_x_only(n, a, b) == Point_init(n, PyMax(a.x, b.x), a.y)

\* A Point.min that takes the argument's coordinates, whatever the receiver's.
Point_min_of_last(n, a, b) == Point_init(n, b.x, b.y)

\* A Point.min that returns its argument, not a copy, when that is the min.
Point_min_reusing(n, a, b) ==
    IF b.x <= a.x /\ b.y <= a.y THEN b
    ELSE Point_init(n, PyMin(a.x, b.x), PyMin(a.y, b.y))

\* Point.min and Point.max: a new Point of the componentwise min (max).
Point_min(n, a, b) == Point_init(n, PyMin(a.x, b.x), PyMin(a.y, b.y))

Point_max(n, a, b) == Point_init(n, PyMax(a.x, b.x), PyMax(a.y, b.y))

\* Point has no __eq__: == is object's, which compares identities.
Point_eq(a, b) == a.id = b.id

\* Point.round: both assignments sit in one try block, so the
\* OverflowError of an infinite x skips the assignment of y as well.
Point_round(pt) ==
    IF IsInf(pt.x) THEN pt
    ELSE IF IsInf(pt.y) THEN [pt EXCEPT !.x = PyRound(pt.x)]
    ELSE [pt EXCEPT !.x = PyRound(pt.x), !.y = PyRound(pt.y)]

\* Point.__round__(self, n), called by round(pt, n) with nargs = <<n>> and by
\* round(pt) with nargs = <<>>: n is a required parameter, so the latter is
\* a TypeError.
Point_round_n(n, a, nargs) ==
    IF Len(nargs) = 0 THEN [err |-> "TypeError", pt |-> a]
    ELSE [err |-> "none",
          pt |-> Point_init(n, PyRoundN(a.x, nargs[1]), PyRoundN(a.y, nargs[1]))]

----------------------------------------------------------------------------
(* The store a call works on. *)

Boxes == {"a", "b"}

PVars == {"p", "q"}

\* The box under construction, before it is bound to a variable.
BoxSlots == Boxes \cup {"new"}

\* The Point variables and the two temporaries of an expression.
PSlots == PVars \cup {"t1", "t2"}

\* No object.
Nil == Point_init(0, 0, 0)

NoBox == [min |-> Nil, max |-> Nil]

\* The program holds one reference per box attribute and Point variable.
Holders == 2 * Cardinality(Boxes) + Cardinality(PVars)

\* The program's references, and the identity the next new object gets.
Store(bx, pv) ==
    [box |-> [b \in BoxSlots |-> IF b \in Boxes THEN bx[b] ELSE NoBox],
     pvar |-> [v \in PSlots |-> IF v \in PVars THEN pv[v] ELSE Nil],
     next |-> Holders + 1,
     err |-> "none"]

\* An assignment of the Point a call returned: identities up to its own
\* are in use.
SetMin(s, b, r) ==
    [s EXCEPT !.box[b].min = r, !.next = IF r.id >= @ THEN r.id + 1 ELSE @]

SetMax(s, b, r) ==
    [s EXCEPT !.box[b].max = r, !.next = IF r.id >= @ THEN r.id + 1 ELSE @]

\* A change of the object pt refers to, seen through every reference to it.
Mutate(s, pt, new) ==
    LET upd(r) == IF r.id = pt.id THEN [new EXCEPT !.id = r.id] ELSE r
    IN  [s EXCEPT !.box = [b \in BoxSlots |-> [min |-> upd(s.box[b].min),
                                               max |-> upd(s.box[b].max)]],
                  !.pvar = [v \in PSlots |-> upd(s.pvar[v])]]

----------------------------------------------------------------------------
(* BBox. *)

\* What a call may pass: a Point (a variable or a temporary), a box, or an
\* object that is neither a Point nor a BBox.
PointArg(v) == [kind |-> "Point", ref |-> v]

BBoxArg(b) == [kind |-> "BBox", ref |-> b]

OtherArg == [kind |-> "other", ref |-> "none"]

\* A loop body that skips an obj of an unsupported type instead of raising.
AddObj_skipping(s, b, obj) ==
    IF obj.kind = "Point" THEN
        LET s1 == SetMin(s, b, Point_min(s.next, s.box[b].min, s.pvar[obj.ref]))
        IN  SetMax(s1, b, Point_max(s1.next, s1.box[b].max, s1.pvar[obj.ref]))
    ELSE IF obj.kind = "BBox" THEN
        LET s1 == SetMin(s, b, Point_min(s.next, s.box[b].min, s.box[obj.ref].min))
        IN  SetMax(s1, b, Point_max(s1.next, s1.box[b].max, s1.box[obj.ref].max))
    ELSE s

\* The body of BBox.add's loop for one obj.
AddObj(s, b, obj) ==
    IF obj.kind = "Point" THEN
        LET s1 == SetMin(s, b, Point_min(s.next, s.box[b].min, s.pvar[obj.ref]))
        IN  SetMax(s1, b, Point_max(s1.next, s1.box[b].max, s1.pvar[obj.ref]))
    ELSE IF obj.kind = "BBox" THEN
        LET s1 == SetMin(s, b, Point_min(s.next, s.box[b].min, s.box[obj.ref].min))
        IN  SetMax(s1, b, Point_max(s1.next, s1.box[b].max, s1.box[obj.ref].max))
    ELSE [s EXCEPT !.err = "NotImplementedError"]

\* BBox.add(self, *objs) from the k-th obj on: the raise ends the loop.
RECURSIVE AddFrom(_, _, _, _)
AddFrom(s, b, objs, k) ==
    IF k > Len(objs) \/ s.err # "none" THEN s
    ELSE AddFrom(AddObj(s, b, objs[k]), b, objs, k + 1)

\* An add that checks every obj before it merges any.
BBox_add_all_or_nothing(s, b, objs) ==
    IF \E k \in 1 .. Len(objs) : objs[k].kind = "other"
    THEN [s EXCEPT !.err = "NotImplementedError"]
    ELSE AddFrom(s, b, objs, 1)

BBox_add(s, b, objs) == AddFrom(s, b, objs, 1)

\* BBox.__init__(self, *pts): the result is the box "new" of the store.
BBox_init(s, pts) ==
    BBox_add([s EXCEPT !.box["new"] = [min |-> Point_init(s.next, Inf, Inf),
                                       max |-> Point_init(s.next + 1, -Inf, -Inf)],
                       !.next = s.next + 2],
             "new", pts)

\* BBox.round: Point.round of min, then of max, in place.
BBox_round(s, b) ==
    LET s1 == Mutate(s, s.box[b].min, Point_round(s.box[b].min))
    IN  Mutate(s1, s1.box[b].max, Point_round(s1.box[b].max))

\* An intersects that counts a shared edge or corner.
BBox_intersects_closed(a, b) ==
    /\ a.min.x <= b.max.x
    /\ a.max.x >= b.min.x
    /\ a.min.y <= b.max.y
    /\ a.max.y >= b.min.y

\* BBox.intersects.
BBox_intersects(a, b) ==
    /\ a.min.x < b.max.x
    /\ a.max.x > b.min.x
    /\ a.min.y < b.max.y
    /\ a.max.y > b.min.y

\* BBox.move with a Point vector: self.min += vector; self.max += vector.
\* Point has no __iadd__, so += binds the result of __add__.
BBox_move(s, b, v) ==
    LET s1 == SetMin(s, b, Point_add(s.next, s.box[b].min, s.pvar[v]))
    IN  SetMax(s1, b, Point_add(s1.next, s1.box[b].max, s1.pvar[v]))

\* BBox.move with a scalar.
BBox_move_scalar(s, b, c) ==
    LET s1 == SetMin(s, b, Point_add_scalar(s.next, s.box[b].min, c))
    IN  SetMax(s1, b, Point_add_scalar(s1.next, s1.box[b].max, c))

\* BBox.resize with a Point vector: self.min -= vector; self.max += vector.
BBox_resize(s, b, v) ==
    LET s1 == SetMin(s, b, Point_sub(s.next, s.box[b].min, s.pvar[v]))
    IN  SetMax(s1, b, Point_add(s1.next, s1.box[b].max, s1.pvar[v]))

\* A resize that applies the scalar inwards: min += c, max -= c.
BBox_resize_scalar_inwards(s, b, c) ==
    LET s1 == SetMin(s, b, Point_add_scalar(s.next, s.box[b].min, c))
    IN  SetMax(s1, b, Point_sub_scalar(s1.next, s1.box[b].max, c))

\* BBox.resize with a scalar.
BBox_resize_scalar(s, b, c) ==
    LET s1 == SetMin(s, b, Point_sub_scalar(s.next, s.box[b].min, c))
    IN  SetMax(s1, b, Point_add_scalar(s1.next, s1.box[b].max, c))

\* BBox.__round__(self, n): BBox(round(self.min), round(self.max)).  n is
\* not passed on: both round calls are given no n, and the first one raises.
\* Without an error the result is the box "new" of the store.
BBox_round_n(s, b, n) ==
    LET lo == Point_round_n(s.next, s.box[b].min, << >>)
        hi == Point_round_n(s.next + 1, s.box[b].max, << >>)
    IN  IF lo.err # "none" THEN [s EXCEPT !.err = lo.err]
        ELSE IF hi.err # "none" THEN [s EXCEPT !.err = hi.err]
        ELSE BBox_init([s EXCEPT !.pvar["t1"] = lo.pt,
                                 !.pvar["t2"] = hi.pt,
                                 !.next = s.next + 2],
                       <<PointArg("t1"), PointArg("t2")>>)

----------------------------------------------------------------------------
(* The state of a program that holds two boxes, a and b, and two Points,   *)
(* p and q.  ret records the last call and its outcome.  hist is history:  *)
(* what has been merged into each box since it was constructed.            *)

\* The identities the program refers to, in a fixed order.
RefSeq(s) ==
    <<s.box["a"].min.id, s.box["a"].max.id, s.box["b"].min.id, s.box["b"].max.id,
      s.pvar["p"].id, s.pvar["q"].id>>

\* Identities carry no meaning beyond equality: an object is renumbered to
\* the place at which RefSeq first mentions it.
RECURSIVE RankFrom(_, _, _)
RankFrom(ids, id, k) == IF ids[k] = id THEN k ELSE RankFrom(ids, id, k + 1)

Rank(ids, id) == RankFrom(ids, id, 1)

\* The end of a statement: the temporaries are dropped.
Finish(s) ==
    LET ids == RefSeq(s)
        ren(r) == [r EXCEPT !.id = Rank(ids, r.id)]
    IN  [box |-> [b \in Boxes |-> [min |-> ren(s.box[b].min),
                                   max |-> ren(s.box[b].max)]],
         pvar |-> [v \in PVars |-> ren(s.pvar[v])]]

Now == Store(box, pvar)

PointOf(r) == <<r.x, r.y>>

BoxOf(bx) == <<bx.min.x, bx.min.y, bx.max.x, bx.max.y>>

Call(op, self, args, c) ==
    [op |-> op, self |-> self, args |-> args, c |-> c,
     err |-> "none", bool |-> FALSE, val |-> << >>]

FinitePoint(pt) == Finite(pt.x) /\ Finite(pt.y)

InRange(c) == IsInf(c) \/ (-MaxCoord <= c /\ c <= MaxCoord)

\* The coordinates of box b are infinite or within the bound.
Bounded(s, b) == \A c \in {BoxOf(s.box[b])[k] : k \in 1 .. 4} : InRange(c)

Commit(s, r) ==
    LET f == Finish(s)
    IN  /\ box' = f.box
        /\ pvar' = f.pvar
        /\ ret' = r

----------------------------------------------------------------------------
(* History: what the calls so far have merged into each box. *)

\* The objs a call to add gets through: all of them, or those before the
\* first that is neither a Point nor a BBox.
Merged(objs) ==
    LET bad == {k \in 1 .. Len(objs) : objs[k].kind = "other"}
    IN  IF bad = {} THEN objs
        ELSE SubSeq(objs, 1, (CHOOSE k \in bad : \A j \in bad : k <= j) - 1)

PointsIn(objs) == {k \in 1 .. Len(objs) : objs[k].kind = "Point"}

BoxesIn(objs) == {k \in 1 .. Len(objs) : objs[k].kind = "BBox"}

\* Every obj is a Point variable holding finite coordinates.
FinitePoints(objs) ==
    \A k \in 1 .. Len(objs) :
        objs[k].kind = "Point" /\ FinitePoint(pvar[objs[k].ref])

\* hist after b.add(*objs); fresh says that b has just been constructed.
HistAdd(b, objs, fresh) ==
    LET got == Merged(objs)
        pure == (fresh \/ hist.pure[b]) /\ FinitePoints(objs)
        old == IF fresh THEN {} ELSE hist.pts[b]
        was == IF fresh THEN FALSE ELSE hist.merged[b]
    IN  [pts |-> [hist.pts EXCEPT ![b] =
                    IF pure
                    THEN old \cup {PointOf(pvar[objs[k].ref]) : k \in PointsIn(objs)}
                    ELSE {}],
         pure |-> [hist.pure EXCEPT ![b] = pure],
         merged |-> [hist.merged EXCEPT ![b] =
                       \/ was
                       \/ PointsIn(got) # {}
                       \/ \E k \in BoxesIn(got) : hist.merged[got[k].ref]],
         tame |-> /\ hist.tame
                  /\ \A k \in PointsIn(got) : FinitePoint(pvar[got[k].ref])]

\* hist after a call that changes b by something other than a merge.
HistTouch(b, tame) ==
    [hist EXCEPT !.pts[b] = {}, !.pure[b] = FALSE, !.tame = hist.tame /\ tame]

----------------------------------------------------------------------------
(* The calls. *)

\* v = Point(x, y).
NewPoint(v, xy) ==
    Commit([Now EXCEPT !.pvar[v] = Point_init(Now.next, xy[1], xy[2])],
           [Call("Point", v, << >>, 0) EXCEPT !.val = xy])

\* b = BBox(*objs).  When add raises, the constructor raises and b keeps
\* the box it had.
Construct(b, objs) ==
    LET s == BBox_init(Now, objs)
    IN  IF s.err = "none"
        THEN Commit([s EXCEPT !.box[b] = s.box["new"]], Call("BBox", b, objs, 0))
        ELSE Commit(Now, [Call("BBox", b, objs, 0) EXCEPT !.err = s.err])

\* b.add(*objs).
Add(b, objs) ==
    LET s == BBox_add(Now, b, objs)
    IN  /\ Commit(s, [Call("add", b, objs, 0) EXCEPT !.err = s.err])

\* b.move(v) with the Point variable v, of finite coordinates.
Move(b, v) ==
    LET s == BBox_move(Now, b, v)
    IN  /\ FinitePoint(pvar[v])
        /\ Bounded(s, b)
        /\ Commit(s, Call("move", b, <<PointArg(v)>>, 0))

\* b.move(c) with the scalar c.
MoveScalar(b, c) ==
    LET s == BBox_move_scalar(Now, b, c)
    IN  /\ Bounded(s, b)
        /\ Commit(s, Call("move", b, << >>, c))

\* b.resize(v) with the Point variable v, of finite coordinates.
Resize(b, v) ==
    LET s == BBox_resize(Now, b, v)
    IN  /\ FinitePoint(pvar[v])
        /\ Bounded(s, b)
        /\ Commit(s, Call("resize", b, <<PointArg(v)>>, 0))

\* b.resize(c) with the scalar c.
ResizeScalar(b, c) ==
    LET s == BBox_resize_scalar(Now, b, c)
    IN  /\ Bounded(s, b)
        /\ Commit(s, Call("resize", b, << >>, c))

\* b.round().
RoundBox(b) ==
    /\ Commit(BBox_round(Now, b), Call("BBox.round", b, << >>, 0))

\* v.round() of the Point variable v.
RoundPoint(v) ==
    /\ Commit(Mutate(Now, pvar[v], Point_round(pvar[v])),
              Call("Point.round", v, << >>, 0))

\* a.intersects(b).
Intersects(a, b) ==
    /\ Commit(Now, [Call("intersects", a, <<BBoxArg(b)>>, 0)
                       EXCEPT !.bool = BBox_intersects(box[a], box[b])])

\* round(b, n) of the box b.
RoundTo(b, n) ==
    LET s == BBox_round_n(Now, b, n)
    IN  /\ Commit(Now, [Call("BBox.__round__", b, << >>, n)
                           EXCEPT !.err = s.err,
                                  !.val = IF s.err = "none"
                                          THEN BoxOf(s.box["new"])
                                          ELSE << >>])

\* round(v, n) of the Point variable v.
PointRoundTo(v, n) ==
    LET r == Point_round_n(Now.next, pvar[v], <<n>>)
    IN  /\ Commit(Now, [Call("Point.__round__", v, << >>, n)
                           EXCEPT !.val = PointOf(r.pt)])

\* v == w.
Equal(v, w) ==
    /\ Commit(Now, [Call("eq", v, <<PointArg(w)>>, 0)
                       EXCEPT !.bool = Point_eq(pvar[v], pvar[w])])

\* (v + w) == (w + v).
AddCommutes(v, w) ==
    LET t1 == Point_add(Now.next, pvar[v], pvar[w])
        t2 == Point_add(t1.id + 1, pvar[w], pvar[v])
    IN  /\ Commit(Now, [Call("add_commutes", v, <<PointArg(w)>>, 0)
                           EXCEPT !.bool = Point_eq(t1, t2),
                                  !.val = PointOf(t1) \o PointOf(t2)])

\* ((v - w) + w) == v.
SubThenAdd(v, w) ==
    LET t1 == Point_sub(Now.next, pvar[v], pvar[w])
        t2 == Point_add(t1.id + 1, t1, pvar[w])
    IN  /\ Commit(Now, [Call("sub_then_add", v, <<PointArg(w)>>, 0)
                           EXCEPT !.bool = Point_eq(t2, pvar[v]),
                                  !.val = PointOf(t2) \o PointOf(pvar[v])])

\* (-(-v)) == v.
NegNeg(v) ==
    LET t1 == Point_neg(Now.next, pvar[v])
        t2 == Point_neg(t1.id + 1, t1)
    IN  /\ Commit(Now, [Call("neg_neg", v, << >>, 0)
                           EXCEPT !.bool = Point_eq(t2, pvar[v]),
                                  !.val = PointOf(t2) \o PointOf(pvar[v])])


----------------------------------------------------------------------------
(* Construction. *)

\* Coordinates of Points, in quarters: (0.25, 1.5), (-1.5, 0.5),
\* (1, 0.25) and (-inf, 0.25).
StartPts == {<<1, 6>>, <<-6, 2>>, <<4, 1>>, <<-Inf, 1>>}

\* name = BBox(*[Point(x, y) for each <<x, y>> of corners]), for at most two
\* corners.
MakeBox(s, name, corners) ==
    LET n == Len(corners)
        s1 == [s EXCEPT
                 !.pvar["t1"] = IF n >= 1
                                THEN Point_init(s.next, corners[1][1], corners[1][2])
                                ELSE Nil,
                 !.pvar["t2"] = IF n >= 2
                                THEN Point_init(s.next + 1, corners[2][1], corners[2][2])
                                ELSE Nil,
                 !.next = s.next + n]
        s2 == BBox_init(s1, SubSeq(<<PointArg("t1"), PointArg("t2")>>, 1, n))
    IN  [s2 EXCEPT !.box[name] = s2.box["new"], !.box["new"] = NoBox,
                   !.pvar["t1"] = Nil, !.pvar["t2"] = Nil]

\* a = BBox(..); b = BBox(..); p = Point(..); q = Point(..)
Boot(ca, cb, pp, qq) ==
    LET s0 == [box |-> [b \in BoxSlots |-> NoBox],
               pvar |-> [v \in PSlots |-> Nil],
               next |-> Holders + 1,
               err |-> "none"]
        s1 == MakeBox(MakeBox(s0, "a", ca), "b", cb)
    IN  Finish([s1 EXCEPT !.pvar["p"] = Point_init(s1.next, pp[1], pp[2]),
                          !.pvar["q"] = Point_init(s1.next + 1, qq[1], qq[2])])

\* The history of boxes built from the corners ca and cb.
NoHist(ca, cb) ==
    LET of(b) == IF b = "a" THEN ca ELSE cb
        pts(b) == {of(b)[k] : k \in 1 .. Len(of(b))}
        pure(b) == \A xy \in pts(b) : Finite(xy[1]) /\ Finite(xy[2])
    IN  [pts |-> [b \in Boxes |-> IF pure(b) THEN pts(b) ELSE {}],
         pure |-> [b \in Boxes |-> pure(b)],
         merged |-> [b \in Boxes |-> pts(b) # {}],
         tame |-> \A b \in Boxes : pure(b)]

Start(ca, cb, pp, qq) ==
    LET f == Boot(ca, cb, pp, qq)
    IN  /\ box = f.box
        /\ pvar = f.pvar
        /\ ret = Call("start", "none", << >>, 0)
        /\ hist = NoHist(ca, cb)
        /\ ops = 0

----------------------------------------------------------------------------
(* SpecMerge: a box built by construction and by merging Points alone. *)

PointObjs == {PointArg(v) : v \in PVars}

PointLists == UNION {[1 .. n -> PointObjs] : n \in 0 .. MaxArgs}

InitMerge == \E pp \in StartPts, qq \in StartPts : Start(<< >>, << >>, pp, qq)

MergeConstruct ==
    \E objs \in PointLists :
        Construct("a", objs) /\ hist' = HistAdd("a", objs, TRUE) /\ UNCHANGED ops

MergeAdd ==
    \E objs \in PointLists :
        Add("a", objs) /\ hist' = HistAdd("a", objs, FALSE) /\ UNCHANGED ops

MergeNewPoint ==
    \E v \in PVars, xy \in StartPts : NewPoint(v, xy) /\ UNCHANGED <<hist, ops>>

NextMerge == MergeConstruct \/ MergeAdd \/ MergeNewPoint

SpecMerge == InitMerge /\ [][NextMerge]_vars

----------------------------------------------------------------------------
(* SpecAdd: one box, a, given Points, the box b and unsupported objects. *)

\* What a call may be given.
Objs == PointObjs \cup {BBoxArg("b"), OtherArg}

ArgLists == UNION {[1 .. n -> Objs] : n \in 0 .. MaxArgs}

\* The corners b is built from: none, or (0, 0) and (2, 2).
StartBoxes == {<< >>, << <<0, 0>>, <<8, 8>> >>}

\* The Points p and q start as.
StartPairs == {<< <<1, 6>>, <<-6, 2>> >>, << <<4, 1>>, <<-Inf, 1>> >>}

InitAdd == \E cb \in StartBoxes, pq \in StartPairs : Start(<< >>, cb, pq[1], pq[2])

AddAny == \E objs \in ArgLists : Add("a", objs) /\ UNCHANGED <<hist, ops>>

ConstructAny == \E objs \in ArgLists : Construct("a", objs) /\ UNCHANGED <<hist, ops>>

NextAdd == AddAny \/ ConstructAny

SpecAdd == InitAdd /\ [][NextAdd]_vars

----------------------------------------------------------------------------
(* Spec: every call that changes a box or a Point, MaxOps calls deep.  The *)
(* box a starts empty and is constructed, merged into, moved, resized and  *)
(* rounded; b, p and q are what it is given, and are rounded in place.     *)

\* The argument lists of Spec: nothing, a Point, or the box b.
Singles == {<< >>} \cup {<<o>> : o \in PointObjs \cup {BBoxArg("b")}}

\* The scalars given to move and resize: -1.0 and 1.0.
Scalars == {-Unit, Unit}

Init == \E cb \in StartBoxes, pq \in StartPairs : Start(<< >>, cb, pq[1], pq[2])

Step == ops < MaxOps /\ ops' = ops + 1

DoConstruct ==
    \E objs \in Singles :
        Step /\ Construct("a", objs) /\ hist' = HistAdd("a", objs, TRUE)

DoAdd ==
    \E objs \in Singles :
        Step /\ Add("a", objs) /\ hist' = HistAdd("a", objs, FALSE)

DoMove ==
    \E v \in PVars : Step /\ Move("a", v) /\ hist' = HistTouch("a", TRUE)

DoMoveScalar ==
    \E c \in Scalars : Step /\ MoveScalar("a", c) /\ hist' = HistTouch("a", TRUE)

DoResize ==
    \E v \in PVars :
        /\ Step
        /\ Resize("a", v)
        /\ hist' = HistTouch("a", pvar[v].x >= 0 /\ pvar[v].y >= 0)

DoResizeScalar ==
    \E c \in Scalars : Step /\ ResizeScalar("a", c) /\ hist' = HistTouch("a", c >= 0)

DoRoundBox ==
    \E b \in Boxes : Step /\ RoundBox(b) /\ hist' = HistTouch(b, TRUE)

DoRoundPoint ==
    \E v \in PVars : Step /\ RoundPoint(v) /\ UNCHANGED hist

Next ==
    \/ DoConstruct
    \/ DoAdd
    \/ DoMove
    \/ DoMoveScalar
    \/ DoResize
    \/ DoResizeScalar
    \/ DoRoundBox
    \/ DoRoundPoint

Spec == Init /\ [][Next]_vars

----------------------------------------------------------------------------
(* The claims. *)

MinOf(S) == CHOOSE x \in S : \A y \in S : x <= y

MaxOf(S) == CHOOSE x \in S : \A y \in S : x >= y

\* The bounding box of a set of <<x, y>> pairs, as <<min.x, min.y, max.x, max.y>>.
Extent(P) ==
    IF P = {} THEN <<Inf, Inf, -Inf, -Inf>>
    ELSE <<MinOf({xy[1] : xy \in P}), MinOf({xy[2] : xy \in P}),
           MaxOf({xy[1] : xy \in P}), MaxOf({xy[2] : xy \in P})>>

\* C1: a box constructed from, and then given, finite Points alone has for
\* min the componentwise minimum and for max the componentwise maximum of
\* the Points merged so far, in whatever order they came; with none merged
\* it is (+inf, +inf), (-inf, -inf).
C1_ExtentOfMerged ==
    \A b \in Boxes : hist.pure[b] => BoxOf(box[b]) = Extent(hist.pts[b])

\* Three different Points have been merged, the last two by one add.
C1_Witness ==
    /\ hist.pure["a"]
    /\ Cardinality(hist.pts["a"]) = 3
    /\ ret.op = "add"
    /\ Len(ret.args) = 2

\* The first obj of args that is neither a Point nor a BBox: 0 when all are.
FirstOther(args) ==
    IF \A k \in 1 .. Len(args) : args[k].kind # "other" THEN 0
    ELSE MinOf({k \in 1 .. Len(args) : args[k].kind = "other"})

\* C3: add with Point or BBox arguments never shrinks the box: min.x and
\* min.y do not increase, max.x and max.y do not decrease.
C3_AddNeverShrinks ==
    [][(ret'.op = "add" /\ FirstOther(ret'.args) = 0) =>
          LET b == ret'.self
          IN  /\ box'[b].min.x <= box[b].min.x
              /\ box'[b].min.y <= box[b].min.y
              /\ box'[b].max.x >= box[b].max.x
              /\ box'[b].max.y >= box[b].max.y]_vars

\* a.add(b, p) has returned and a has a width and a height.
C3_Witness ==
    /\ ret.op = "add"
    /\ ret.err = "none"
    /\ ret.args = <<BBoxArg("b"), PointArg("p")>>
    /\ box["a"].min.x < box["a"].max.x
    /\ box["a"].min.y < box["a"].max.y
    /\ Finite(box["a"].min.x)

\* C5: add, and the construction that delegates to it, raise the
\* unsupported-type error when some argument is neither a Point nor a BBox,
\* and do not raise it otherwise.
C5_UnsupportedType ==
    ret.op \in {"add", "BBox"} =>
        ret.err = IF FirstOther(ret.args) # 0 THEN "NotImplementedError" ELSE "none"

\* BBox(p, other) has raised.
C5_Witness ==
    /\ ret.op = "BBox"
    /\ ret.args = <<PointArg("p"), OtherArg>>
    /\ ret.err = "NotImplementedError"

\* What the objs of args contribute to the min (lo) and to the max (hi).
Lows(args) ==
    {IF args[k].kind = "Point" THEN PointOf(pvar[args[k].ref])
     ELSE PointOf(box[args[k].ref].min) : k \in 1 .. Len(args)}

Highs(args) ==
    {IF args[k].kind = "Point" THEN PointOf(pvar[args[k].ref])
     ELSE PointOf(box[args[k].ref].max) : k \in 1 .. Len(args)}

\* C10: when the k-th obj is the first of an unsupported type, add raises
\* with the box widened by the objs before it and by none after it.
C10_PartialMerge ==
    [][(ret'.op = "add" /\ ret'.err # "none") =>
          LET b == ret'.self
              k == FirstOther(ret'.args)
              pre == SubSeq(ret'.args, 1, k - 1)
              lo == Extent(Lows(pre) \cup {PointOf(box[b].min)})
              hi == Extent(Highs(pre) \cup {PointOf(box[b].max)})
          IN  /\ k > 0
              /\ BoxOf(box'[b]) = <<lo[1], lo[2], hi[3], hi[4]>>]_vars

\* a.add(p, other, ..) has raised and a is no longer empty.
C10_Witness ==
    /\ ret.op = "add"
    /\ ret.err = "NotImplementedError"
    /\ Len(ret.args) >= 2
    /\ ret.args[1] = PointArg("p")
    /\ ret.args[2] = OtherArg
    /\ PointOf(box["a"].min) = PointOf(pvar["p"])
    /\ PointOf(box["a"].max) = PointOf(pvar["p"])

Ordered(bx) == bx.min.x <= bx.max.x /\ bx.min.y <= bx.max.y

\* C2 as stated: once a Point or a box that is not empty has been merged
\* into a box, min.x <= max.x and min.y <= max.y, whatever add, move, resize
\* and round calls follow.
C2_AlwaysOrdered == \A b \in Boxes : hist.merged[b] => Ordered(box[b])

\* C2 as amended: the same, as long as every Point merged had finite
\* coordinates and no resize was given a negative component.
C2_OrderedUnlessShrunk ==
    hist.tame => \A b \in Boxes : hist.merged[b] => Ordered(box[b])

\* A box that has been given a Point, has a width, and has just been rounded.
C2_Witness ==
    /\ hist.tame
    /\ hist.merged["a"]
    /\ ret.op = "BBox.round"
    /\ ret.self = "a"
    /\ box["a"].min.x < box["a"].max.x
    /\ box["a"].min.y < box["a"].max.y

\* A call rounds in place only the object it is called on: v.round() leaves
\* every box as it was, b.round() every other box and every Point variable.
RoundsOnlyItsOwn ==
    /\ ret'.op = "Point.round" =>
          \A b \in Boxes : BoxOf(box'[b]) = BoxOf(box[b])
    /\ ret'.op = "BBox.round" =>
          /\ \A b \in Boxes \ {ret'.self} : BoxOf(box'[b]) = BoxOf(box[b])
          /\ \A v \in PVars : PointOf(pvar'[v]) = PointOf(pvar[v])

\* C9: the min and max of a box are objects of their own, neither each
\* other, nor a Point the program passed, nor the min or max of another box;
\* so rounding a passed Point, or another box, in place leaves the box alone.
C9_OwnsItsPoints ==
    /\ [](Cardinality({RefSeq(Now)[k] : k \in 1 .. Holders}) = Holders)
    /\ [][RoundsOnlyItsOwn]_vars

\* p was merged into a and then rounded in place: a keeps the coordinates
\* p had, which p no longer has.
C9_Witness ==
    /\ ret.op = "Point.round"
    /\ ret.self = "p"
    /\ hist.merged["a"]
    /\ PointOf(box["a"].min) = <<1, 6>>
    /\ PointOf(box["a"].max) = <<1, 6>>
    /\ PointOf(pvar["p"]) = <<0, 2 * Unit>>

----------------------------------------------------------------------------
(* SpecBox: the calls on a box that return a value and change nothing,     *)
(* from boxes that overlap, touch, contain each other or lie apart.        *)

\* The sides of the boxes: [lo, hi] in quarters, on one axis.
Sides == {<<0, 8>>, <<0, 4>>, <<4, 8>>, <<8, 12>>, <<2, 5>>, <<4, 4>>}

\* BBox(), and BBox(Point(lo, lo'), Point(hi, hi')) for every two sides.
Corners ==
    {<< >>} \cup {<< <<sx[1], sy[1]>>, <<sx[2], sy[2]>> >> : sx \in Sides, sy \in Sides}

CornersOfA == {<< >>, << <<0, 0>>, <<8, 8>> >>, << <<1, 2>>, <<6, 7>> >>}

\* The digit counts given to round: n = 1 would leave the quarters.
Digits == {0, 2}

InitBox ==
    \E ca \in CornersOfA, cb \in Corners : Start(ca, cb, <<0, 0>>, <<0, 0>>)

AskIntersects ==
    \E a \in Boxes, b \in Boxes : Intersects(a, b) /\ UNCHANGED <<hist, ops>>

AskRoundTo ==
    \E b \in Boxes, n \in Digits : RoundTo(b, n) /\ UNCHANGED <<hist, ops>>

NextBox == AskIntersects \/ AskRoundTo

SpecBox == InitBox /\ [][NextBox]_vars

\* The two boxes of the last intersects call, as <<min.x, min.y, max.x, max.y>>.
Asked == <<BoxOf(box[ret.self]), BoxOf(box[ret.args[1].ref])>>

\* One box ends, on some axis, where the other starts.
Touching(A, B) == A[3] = B[1] \/ B[3] = A[1] \/ A[4] = B[2] \/ B[4] = A[2]

\* C4: a.intersects(b) is true exactly when a starts before b ends and
\* ends after b starts, strictly, on both axes; boxes of which one ends
\* where the other starts are reported as not intersecting.
C4_StrictOverlap ==
    ret.op = "intersects" =>
        LET A == Asked[1]
            B == Asked[2]
        IN  /\ ret.bool <=> ~(A[1] >= B[3] \/ A[3] <= B[1] \/ A[2] >= B[4] \/ A[4] <= B[2])
            /\ Touching(A, B) => ~ret.bool

\* a = (0,0)-(2,2) and b = (2,0)-(3,2) share an edge, and a.intersects(b)
\* has returned False.
C4_Witness ==
    /\ ret.op = "intersects"
    /\ ret.self = "a"
    /\ Asked = << <<0, 0, 8, 8>>, <<8, 0, 12, 8>> >>
    /\ ~ret.bool

\* C7: round(b, n) of a box with finite min and max returns a new box with
\* the min and max of b rounded to n digits.
C7_RoundToReturnsBox ==
    (ret.op = "BBox.__round__" /\ \A k \in 1 .. 4 : Finite(BoxOf(box[ret.self])[k])) =>
        /\ ret.err = "none"
        /\ ret.val = [k \in 1 .. 4 |-> PyRoundN(BoxOf(box[ret.self])[k], ret.c)]

----------------------------------------------------------------------------
(* SpecPoint: the calls on Points, from Points with finite and infinite,   *)
(* whole and fractional coordinates.                                       *)

\* -inf, -1.5, 0.25, 1, 2 and inf.
Coords == {-Inf, -6, 1, 4, 8, Inf}

\* The pairs of Points compared are finite.
InitPoint ==
    \E pp \in Coords \X Coords, qq \in {<<4, 8>>, <<-6, 1>>, <<8, 4>>} :
        Start(<< >>, << >>, pp, qq)

AskRound == \E v \in PVars : RoundPoint(v) /\ UNCHANGED <<hist, ops>>

AskPointRoundTo ==
    \E v \in PVars, n \in Digits : PointRoundTo(v, n) /\ UNCHANGED <<hist, ops>>

AskEqual == \E v \in PVars, w \in PVars : Equal(v, w) /\ UNCHANGED <<hist, ops>>

AskAddCommutes ==
    \E v \in PVars, w \in PVars :
        /\ FinitePoint(pvar[v]) /\ FinitePoint(pvar[w])
        /\ AddCommutes(v, w)
        /\ UNCHANGED <<hist, ops>>

AskSubThenAdd ==
    \E v \in PVars, w \in PVars :
        /\ FinitePoint(pvar[v]) /\ FinitePoint(pvar[w])
        /\ SubThenAdd(v, w)
        /\ UNCHANGED <<hist, ops>>

AskNegNeg ==
    \E v \in PVars : FinitePoint(pvar[v]) /\ NegNeg(v) /\ UNCHANGED <<hist, ops>>

NextPoint ==
    \/ AskRound
    \/ AskPointRoundTo
    \/ AskEqual
    \/ AskAddCommutes
    \/ AskSubThenAdd
    \/ AskNegNeg

SpecPoint == InitPoint /\ [][NextPoint]_vars

\* The coordinate c after a rounding that leaves infinities alone.
Rounded(c) == IF IsInf(c) THEN c ELSE PyRound(c)

\* C6: v.round() replaces every finite coordinate of v by its nearest
\* integer and leaves every infinite one, whatever the other coordinate is.
C6_RoundsEveryFinite ==
    [][ret'.op = "Point.round" =>
          LET v == ret'.self
          IN  /\ ret'.err = "none"
              /\ pvar'[v].x = Rounded(pvar[v].x)
              /\ pvar'[v].y = Rounded(pvar[v].y)]_vars

WholePoint(pt) == FinitePoint(pt) /\ pt.x % Unit = 0 /\ pt.y % Unit = 0

\* C8: Points with the same coordinates compare equal, so for Points with
\* integer coordinates a + b == b + a, (a - b) + b == a and -(-a) == a are
\* all True.
C8_StructuralEquality ==
    /\ (ret.op = "eq" /\ PointOf(pvar[ret.self]) = PointOf(pvar[ret.args[1].ref]))
          => ret.bool
    /\ (ret.op \in {"add_commutes", "sub_then_add"}
          /\ WholePoint(pvar[ret.self]) /\ WholePoint(pvar[ret.args[1].ref]))
          => ret.bool
    /\ (ret.op = "neg_neg" /\ WholePoint(pvar[ret.self])) => ret.bool

====
